---- MODULE Spec2Model ----
(***************************************************************************)
(* The theatre endpoints of src/main.py: the in-memory store `theatres`,   *)
(* the content-derived ETag of _calc_etag, and the handlers                *)
(* create_theatre, get_theatre, replace_theatre and delete_theatre.        *)
(*                                                                         *)
(* The handlers are plain `def` functions, which FastAPI runs on a thread  *)
(* pool: two requests may interleave between any two accesses of the       *)
(* shared dict.  Each action below is one handler's code up to and         *)
(* including one access of shared state (the dict or the wall clock).      *)
(*                                                                         *)
(* Optional values (Optional[str] headers, the result of dict.get) are     *)
(* sequences of length at most one: <<>> is None and <<x>> is the value x. *)
(***************************************************************************)
EXTENDS Integers, Sequences, FiniteSets, TLC

\* ------------------------------------------------------------------ bounds
\* Requests served in one behaviour.
MaxReq == 3
\* Last reading of the wall clock (datetime.utcnow) in one behaviour.
MaxClock == 1
Req == 1..MaxReq
\* Identifiers are opaque: the k-th one uuid4 returns is named k, and
\* NoSuchId is one it never returns (a client may ask for any UUID).
NoSuchId == MaxReq + 1

None == <<>>
Some(x) == <<x>>

\* ------------------------------------------------------------ the resource
\* The request body of POST and PUT (TheatreCreate): the business fields.
\* phone stands for the optional contact fields, which may be None.
TheatreCreate ==
    [name : {"Grand Cinema"}, capacity : {100, 200}, phone : {None, Some("555")}]

\* The request bodies drawn when requests run concurrently: two that differ
\* in every field that varies.
Payloads == {t \in TheatreCreate : (t.capacity = 100) <=> (t.phone = None)}

\* TheatreRead(**fields): the stored resource.  id defaults to a uuid4 and
\* the two timestamps default to the wall clock when they are not passed;
\* the two defaults of one construction are one reading t of the clock.
TheatreRead(id, theatre, t) ==
    [id |-> id, name |-> theatre.name, capacity |-> theatre.capacity,
     phone |-> theatre.phone, created_at |-> t, updated_at |-> t]

\* PydanticJSONEncoder.default: datetime -> isoformat() + "Z", UUID -> str.
EncodeDatetime(t) == <<"iso", t, "Z">>
EncodeUUID(u) == <<"uuid", u>>

\* A serialisation that leaves the capacity out.
CanonicalJSONNoCapacity(obj) ==
    <<  <<"created_at", EncodeDatetime(obj.created_at)>>,
        <<"id", EncodeUUID(obj.id)>>,
        <<"name", obj.name>> >>
    \o (IF obj.phone = None THEN <<>> ELSE << <<"phone", obj.phone[1]>> >>)
    \o << <<"updated_at", EncodeDatetime(obj.updated_at)>> >>

\* json.dumps(obj.model_dump(exclude_none=True), sort_keys=True,
\* separators=(",", ":")): the key/value pairs in ascending key order, the
\* pairs whose value is None left out.
CanonicalJSON(obj) ==
    <<  <<"capacity", obj.capacity>>,
        <<"created_at", EncodeDatetime(obj.created_at)>>,
        <<"id", EncodeUUID(obj.id)>>,
        <<"name", obj.name>> >>
    \o (IF obj.phone = None THEN <<>> ELSE << <<"phone", obj.phone[1]>> >>)
    \o << <<"updated_at", EncodeDatetime(obj.updated_at)>> >>

\* hashlib.sha256(payload).hexdigest(): collision-free on the payloads of a
\* behaviour, so the digest is modelled as a tag around the payload.
Sha256Hex(payload) == [sha256 |-> payload]

\* _calc_etag: the quoted digest of the canonical JSON.
CalcEtag(obj) == <<"\"", Sha256Hex(CanonicalJSON(obj)), "\"">>

\* An ETag no stored value has: what a client sends when it invents one.
BogusEtag == <<"\"", Sha256Hex(<<>>), "\"">>

\* ------------------------------------------------------------------- state
VARIABLES
    theatres,   \* the dict theatres: id -> TheatreRead
    now,        \* the reading datetime.utcnow() returns
    minted,     \* how many identifiers uuid4 has returned so far
    req         \* the requests: inputs, position in the handler, response

vars == <<theatres, now, minted, req>>

\* theatres.get(theatre_id)
DictGet(d, k) == IF k \in DOMAIN d THEN Some(d[k]) ELSE None

\* theatres[k] = v
DictSet(d, k, v) == [x \in DOMAIN d \cup {k} |-> IF x = k THEN v ELSE d[x]]

\* theatres.clear() in the place of del theatres[k]
DictClear(d, k) == <<>>

\* del theatres[k], for a key that is present
DictDel(d, k) == [x \in DOMAIN d \ {k} |-> d[x]]

Idle ==
    [kind |-> "none", pc |-> "idle", theatre_id |-> None, theatre |-> None,
     if_match |-> None, if_none_match |-> None, replacement |-> None,
     status |-> 0, etag |-> None, body |-> None]

Init ==
    /\ theatres = <<>>
    /\ now = 0
    /\ minted = 0
    /\ req = [r \in Req |-> Idle]

\* Requests are taken in the order of their index.
CanStart(r) ==
    /\ req[r].pc = "idle"
    /\ \A q \in DOMAIN req : q < r => req[q].pc # "idle"

Done(q) == req[q].pc = "done"

\* The requests already answered: a request issued now comes after them.
Answered == {q \in DOMAIN req : Done(q)}

\* The ETags clients have seen in responses, and one nobody was given.
KnownEtags == {req[q].etag[1] : q \in {x \in Answered : req[x].etag # None}}
ClientEtags == KnownEtags \cup {BogusEtag}
OptEtags == {None} \cup {Some(e) : e \in ClientEtags}

\* The wall clock advances between any two steps.
Tick ==
    /\ now < MaxClock
    /\ now' = now + 1
    /\ UNCHANGED <<theatres, minted, req>>

\* uuid4(): an identifier it has not returned before.
Uuid4 == minted + 1

\* The identifiers a request may name: those handed out in a response so
\* far, and one that never was.
PathIds == (1..minted) \cup {NoSuchId}

\* A create_theatre that stores every theatre under one constant key.
CreateTheatreConstantKey(r, theatre) ==
    /\ CanStart(r)
    /\ LET new_theatre == TheatreRead(Uuid4, theatre, now) IN
        /\ theatres' = DictSet(theatres, 1, new_theatre)
        /\ req' = [req EXCEPT ![r] =
                [@ EXCEPT !.kind = "POST", !.pc = "done", !.status = 201,
                          !.etag = Some(CalcEtag(new_theatre)),
                          !.body = Some(new_theatre)]]
    /\ minted' = minted + 1
    /\ UNCHANGED now

\* POST /theatres (create_theatre)
CreateTheatre(r, theatre) ==
    /\ CanStart(r)
    /\ LET new_theatre == TheatreRead(Uuid4, theatre, now) IN
        /\ theatres' = DictSet(theatres, new_theatre.id, new_theatre)
        /\ req' = [req EXCEPT ![r] =
                [@ EXCEPT !.kind = "POST", !.pc = "done", !.status = 201,
                          !.etag = Some(CalcEtag(new_theatre)),
                          !.body = Some(new_theatre)]]
    /\ minted' = minted + 1
    /\ UNCHANGED now

\* The handlers registered for GET /theatres/{theatre_id}, in the order of
\* their decorators.
GetRoutes == <<"get_theatre_etag", "get_theatre_plain">>

\* A router in which the later registration of a path replaces the earlier.
DispatchLast(routes) == routes[Len(routes)]

\* The router hands a request to the first route that matches it.
Dispatch(routes) == routes[1]

\* A get_theatre that echoes If-None-Match as the ETag of a 200.
GetTheatreEtagEchoes(d, theatre_id, if_none_match) ==
    LET item == DictGet(d, theatre_id) IN
    IF item = None
    THEN [status |-> 404, etag |-> None, body |-> None]
    ELSE LET etag == CalcEtag(item[1]) IN
         IF if_none_match = Some(etag)
         THEN [status |-> 304, etag |-> Some(etag), body |-> None]
         ELSE [status |-> 200, etag |-> if_none_match, body |-> item]

\* get_theatre as registered first: conditional GET with If-None-Match.
GetTheatreEtag(d, theatre_id, if_none_match) ==
    LET item == DictGet(d, theatre_id) IN
    IF item = None
    THEN [status |-> 404, etag |-> None, body |-> None]
    ELSE LET etag == CalcEtag(item[1]) IN
         IF if_none_match = Some(etag)
         THEN [status |-> 304, etag |-> Some(etag), body |-> None]
         ELSE [status |-> 200, etag |-> Some(etag), body |-> item]

\* get_theatre as registered second: no ETag, no conditional answer.
GetTheatrePlain(d, theatre_id) ==
    LET item == DictGet(d, theatre_id) IN
    IF item = None
    THEN [status |-> 404, etag |-> None, body |-> None]
    ELSE [status |-> 200, etag |-> None, body |-> item]

\* A get_theatre that looks the item up with theatres.pop.
GetTheatrePops(r, theatre_id, if_none_match) ==
    /\ CanStart(r)
    /\ LET resp == GetTheatreEtag(theatres, theatre_id, if_none_match) IN
        req' = [req EXCEPT ![r] =
                [@ EXCEPT !.kind = "GET", !.pc = "done",
                          !.theatre_id = Some(theatre_id),
                          !.if_none_match = if_none_match,
                          !.status = resp.status, !.etag = resp.etag,
                          !.body = resp.body]]
    /\ theatres' = IF theatre_id \in DOMAIN theatres
                   THEN DictDel(theatres, theatre_id) ELSE theatres
    /\ UNCHANGED <<now, minted>>

\* GET /theatres/{theatre_id}
GetTheatre(r, theatre_id, if_none_match) ==
    /\ CanStart(r)
    /\ LET resp == IF Dispatch(GetRoutes) = "get_theatre_etag"
                   THEN GetTheatreEtag(theatres, theatre_id, if_none_match)
                   ELSE GetTheatrePlain(theatres, theatre_id) IN
        req' = [req EXCEPT ![r] =
                [@ EXCEPT !.kind = "GET", !.pc = "done",
                          !.theatre_id = Some(theatre_id),
                          !.if_none_match = if_none_match,
                          !.status = resp.status, !.etag = resp.etag,
                          !.body = resp.body]]
    /\ UNCHANGED <<theatres, now, minted>>

\* A replace_theatre that treats If-Match as delete_theatre does: optional.
ReplacePreconditionOptional(existing, if_match) ==
    IF existing = None THEN 404
    ELSE IF if_match # None /\ if_match # Some(CalcEtag(existing[1])) THEN 412
    ELSE 0

\* A replace_theatre that requires If-Match but never compares it.
ReplacePreconditionUncompared(existing, if_match) ==
    IF existing = None THEN 404
    ELSE IF if_match = None THEN 428
    ELSE 0

\* A replace_theatre that looks at the header before it looks the id up.
ReplacePreconditionHeaderFirst(existing, if_match) ==
    IF if_match = None THEN 428
    ELSE IF existing = None THEN 404
    ELSE IF if_match # Some(CalcEtag(existing[1])) THEN 412
    ELSE 0

\* replace_theatre, lines 176-185: the status the checks raise, 0 when
\* they all pass.
ReplacePrecondition(existing, if_match) ==
    IF existing = None THEN 404
    ELSE IF if_match = None THEN 428
    ELSE IF if_match # Some(CalcEtag(existing[1])) THEN 412
    ELSE 0

\* PUT /theatres/{theatre_id} (replace_theatre), lines 175-185: the lookup
\* and the precondition checks on the value it returned.
PutCheck(r, theatre_id, theatre, if_match) ==
    /\ CanStart(r)
    /\ LET existing == DictGet(theatres, theatre_id)
           status == ReplacePrecondition(existing, if_match) IN
        req' = [req EXCEPT ![r] =
                [@ EXCEPT !.kind = "PUT",
                          !.pc = IF status = 0 THEN "build" ELSE "done",
                          !.theatre_id = Some(theatre_id),
                          !.theatre = IF status = 0 THEN Some(theatre) ELSE None,
                          !.if_match = if_match, !.status = status]]
    /\ UNCHANGED <<theatres, now, minted>>

\* replace_theatre, line 188: the replacement keeps the id and takes its
\* timestamps from the wall clock.
PutBuild(r) ==
    /\ req[r].kind = "PUT" /\ req[r].pc = "build"
    /\ req' = [req EXCEPT ![r] =
                [@ EXCEPT !.pc = "store",
                          !.replacement =
                              Some(TheatreRead(req[r].theatre_id[1],
                                               req[r].theatre[1], now))]]
    /\ UNCHANGED <<theatres, now, minted>>

\* A replace_theatre that answers with current_etag, not new_etag.
PutStoreOldEtag(r) ==
    /\ req[r].kind = "PUT" /\ req[r].pc = "store"
    /\ LET replacement == req[r].replacement[1] IN
        /\ theatres' = DictSet(theatres, req[r].theatre_id[1], replacement)
        /\ req' = [req EXCEPT ![r] =
                [@ EXCEPT !.pc = "done", !.status = 200,
                          !.theatre = None, !.replacement = None,
                          !.etag = req[r].if_match,
                          !.body = Some(replacement)]]
    /\ UNCHANGED <<now, minted>>

\* A replace_theatre that starts its replacement over when the key is gone.
PutStoreRetries(r) ==
    /\ req[r].kind = "PUT" /\ req[r].pc = "store"
    /\ LET replacement == req[r].replacement[1] IN
        IF req[r].theatre_id[1] \in DOMAIN theatres
        THEN /\ theatres' = DictSet(theatres, req[r].theatre_id[1], replacement)
             /\ req' = [req EXCEPT ![r] =
                    [@ EXCEPT !.pc = "done", !.status = 200,
                              !.theatre = None, !.replacement = None,
                              !.etag = Some(CalcEtag(replacement)),
                              !.body = Some(replacement)]]
        ELSE /\ theatres' = theatres
             /\ req' = [req EXCEPT ![r] =
                    [@ EXCEPT !.pc = "build", !.replacement = None]]
    /\ UNCHANGED <<now, minted>>

\* replace_theatre, lines 189-193: the write and the response.
PutStore(r) ==
    /\ req[r].kind = "PUT" /\ req[r].pc = "store"
    /\ LET replacement == req[r].replacement[1] IN
        /\ theatres' = DictSet(theatres, req[r].theatre_id[1], replacement)
        /\ req' = [req EXCEPT ![r] =
                [@ EXCEPT !.pc = "done", !.status = 200,
                          !.theatre = None, !.replacement = None,
                          !.etag = Some(CalcEtag(replacement)),
                          !.body = Some(replacement)]]
    /\ UNCHANGED <<now, minted>>

\* delete_theatre, lines 202-208: the status the checks raise, 0 when they
\* all pass.
DeletePrecondition(existing, if_match) ==
    IF existing = None THEN 404
    ELSE IF if_match # None /\ if_match # Some(CalcEtag(existing[1])) THEN 412
    ELSE 0

\* A delete_theatre that removes the entry before it checks If-Match.
DelCheckRemovesFirst(r, theatre_id, if_match) ==
    /\ CanStart(r)
    /\ LET existing == DictGet(theatres, theatre_id)
           status == DeletePrecondition(existing, if_match) IN
        /\ theatres' = IF existing = None THEN theatres
                       ELSE DictDel(theatres, theatre_id)
        /\ req' = [req EXCEPT ![r] =
                [@ EXCEPT !.kind = "DELETE", !.pc = "done",
                          !.theatre_id = Some(theatre_id),
                          !.if_match = if_match,
                          !.status = IF status = 0 THEN 200 ELSE status]]
    /\ UNCHANGED <<now, minted>>

\* DELETE /theatres/{theatre_id} (delete_theatre), lines 201-208: the lookup
\* and the optional precondition check.
DelCheck(r, theatre_id, if_match) ==
    /\ CanStart(r)
    /\ LET existing == DictGet(theatres, theatre_id)
           status == DeletePrecondition(existing, if_match) IN
        req' = [req EXCEPT ![r] =
                [@ EXCEPT !.kind = "DELETE",
                          !.pc = IF status = 0 THEN "del" ELSE "done",
                          !.theatre_id = Some(theatre_id),
                          !.if_match = if_match, !.status = status]]
    /\ UNCHANGED <<theatres, now, minted>>

\* delete_theatre, lines 210-211: del theatres[theatre_id] raises KeyError
\* when the key is gone; nothing catches it and the server answers 500.
DelRemove(r) ==
    /\ req[r].kind = "DELETE" /\ req[r].pc = "del"
    /\ LET theatre_id == req[r].theatre_id[1] IN
        IF theatre_id \in DOMAIN theatres
        THEN /\ theatres' = DictDel(theatres, theatre_id)
             /\ req' = [req EXCEPT ![r] = [@ EXCEPT !.pc = "done", !.status = 200]]
        ELSE /\ theatres' = theatres
             /\ req' = [req EXCEPT ![r] = [@ EXCEPT !.pc = "done", !.status = 500]]
    /\ UNCHANGED <<now, minted>>

Next ==
    \/ Tick
    \/ \E r \in DOMAIN req, theatre \in Payloads : CreateTheatre(r, theatre)
    \/ \E r \in DOMAIN req, id \in PathIds, inm \in OptEtags : GetTheatre(r, id, inm)
    \/ \E r \in DOMAIN req, id \in PathIds, theatre \in Payloads, ifm \in OptEtags :
            PutCheck(r, id, theatre, ifm)
    \/ \E r \in DOMAIN req : PutBuild(r)
    \/ \E r \in DOMAIN req : PutStore(r)
    \/ \E r \in DOMAIN req, id \in PathIds, ifm \in OptEtags : DelCheck(r, id, ifm)
    \/ \E r \in DOMAIN req : DelRemove(r)

Spec == Init /\ [][Next]_vars

\* A handler past its first step takes its next one.
HandlerStep == \E r \in DOMAIN req : PutBuild(r) \/ PutStore(r) \/ DelRemove(r)

\* The handlers run on threads of the pool, which the scheduler keeps
\* running: while some handler can take its next step, one of them does.
FairSpec == Spec /\ WF_vars(HandlerStep)

\* ------------------------------------------------- the end-to-end scenario
\* One client, one request at a time: create, GET, PUT with the ETag of the
\* create and a new capacity, PUT again with the same ETag, DELETE with the
\* ETag of the first PUT, GET.  Request k of the scenario is req[k].
ScenInit ==
    /\ theatres = <<>>
    /\ now = 0
    /\ minted = 0
    /\ req = [r \in 1..6 |-> Idle]

\* The client waits for each answer before it sends the next request.
Turn(r) == \A q \in DOMAIN req : q < r => Done(q)

ScenId == req[1].body[1].id
ScenE1 == req[1].etag
ScenE2 == req[3].etag

ScenCreate == \E theatre \in TheatreCreate : CreateTheatre(1, theatre)

ScenGet(r) ==
    /\ Turn(r)
    /\ \E inm \in {None, Some(BogusEtag)} : GetTheatre(r, ScenId, inm)

ScenPutNewCapacity ==
    /\ Turn(3)
    /\ \E theatre \in TheatreCreate :
        /\ theatre.capacity # req[1].body[1].capacity
        /\ theatre.name = req[1].body[1].name
        /\ theatre.phone = req[1].body[1].phone
        /\ PutCheck(3, ScenId, theatre, ScenE1)

ScenPutStale ==
    /\ Turn(4)
    /\ \E theatre \in TheatreCreate : PutCheck(4, ScenId, theatre, ScenE1)

ScenDelete ==
    /\ Turn(5)
    /\ DelCheck(5, ScenId, ScenE2)

ScenNext ==
    \/ Tick
    \/ ScenCreate
    \/ ScenGet(2)
    \/ ScenPutNewCapacity
    \/ \E r \in DOMAIN req : PutBuild(r)
    \/ \E r \in DOMAIN req : PutStore(r)
    \/ ScenPutStale
    \/ ScenDelete
    \/ \E r \in DOMAIN req : DelRemove(r)
    \/ ScenGet(6)

ScenSpec == ScenInit /\ [][ScenNext]_vars

\* ------------------------------------------------------------ the claims
IsPut(q) == req[q].kind = "PUT"
IsDelete(q) == req[q].kind = "DELETE"
IsGet(q) == req[q].kind = "GET"

\* Request r takes its first step, as a request of this kind.
Begins(r, kind) == req[r].pc = "idle" /\ req'[r].kind = kind

\* Request r is answered in this step.
Answers(r) == req[r].pc # "done" /\ req'[r].pc = "done"

\* The stored value under id has this optional ETag.
CurrentIs(id, e) == id \in DOMAIN theatres /\ e = Some(CalcEtag(theatres[id]))

\* C1: two PUT requests for the same id that carry the same If-Match and
\* each change the stored content (the ETag each is answered with differs
\* from its If-Match) are never both answered 200.
C1_OnePutWins ==
    \A p, q \in DOMAIN req :
        ( /\ p # q /\ IsPut(p) /\ IsPut(q) /\ Done(p) /\ Done(q)
          /\ req[p].theatre_id = req[q].theatre_id
          /\ req[p].if_match = req[q].if_match
          /\ req[p].status = 200 /\ req[p].etag # req[p].if_match
          /\ req[q].etag # req[q].if_match )
        => req[q].status = 412

\* C2: a PUT that finds its id Present is answered 428 without If-Match and
\* 412 with an If-Match that differs from the ETag of the value it found;
\* with an equal one it goes on to the write and is answered 200, the store
\* then holds the replacement (the fields of the request) under the same
\* id, and the ETag of the response is the ETag of the value now stored.
C2_PutPrecondition ==
    [][\A r \in DOMAIN req :
        /\ (Begins(r, "PUT") /\ req'[r].theatre_id[1] \in DOMAIN theatres) =>
              LET ifm == req'[r].if_match
                  cur == Some(CalcEtag(theatres[req'[r].theatre_id[1]])) IN
              /\ ifm = None => (req'[r].pc = "done" /\ req'[r].status = 428)
              /\ (ifm # None /\ ifm # cur) =>
                    (req'[r].pc = "done" /\ req'[r].status = 412)
              /\ ifm = cur => (req'[r].pc = "build" /\ req'[r].status = 0)
        /\ (IsPut(r) /\ req[r].pc \in {"build", "store"}) =>
              \/ req'[r] = req[r]
              \/ req[r].pc = "build" /\ req'[r].pc = "store"
              \/ LET id == req[r].theatre_id[1] IN
                 /\ req[r].pc = "store" /\ req'[r].pc = "done"
                 /\ req'[r].status = 200
                 /\ id \in DOMAIN theatres'
                 /\ theatres'[id].id = id
                 /\ theatres'[id].name = req[r].theatre[1].name
                 /\ theatres'[id].capacity = req[r].theatre[1].capacity
                 /\ theatres'[id].phone = req[r].theatre[1].phone
                 /\ req'[r].etag = Some(CalcEtag(theatres'[id]))
                 /\ req'[r].body = Some(theatres'[id])
      ]_vars

\* C2's case: a PUT answered 200 whose replacement is the stored value.
C2_Witness ==
    \E r \in DOMAIN req :
        /\ IsPut(r) /\ Done(r) /\ req[r].status = 200
        /\ CurrentIs(req[r].theatre_id[1], req[r].etag)

\* A PUT q that names an ETag the resource had before an earlier successful
\* PUT p on the same id: p was let through with it.
StaleFor(q_id, q_if_match) ==
    \E p \in Answered :
        /\ IsPut(p) /\ req[p].status = 200
        /\ req[p].theatre_id = Some(q_id)
        /\ req[p].if_match = q_if_match

\* C3 as stated: after a successful PUT on an id, a later PUT on that id
\* whose If-Match is an ETag the resource had before that PUT is answered
\* 412 and leaves the store alone.
C3_StalePutRejected ==
    [][\A r \in DOMAIN req :
        (Begins(r, "PUT") /\ StaleFor(req'[r].theatre_id[1], req'[r].if_match)) =>
            (req'[r].pc = "done" /\ req'[r].status = 412 /\ theatres' = theatres)
      ]_vars

\* C3 amended: such a PUT, on an id that is still Present, is answered 412
\* and leaves the store alone unless the value now stored has that very
\* ETag again; then the checks pass as for any current ETag.
C3_StalePutRejectedUnlessCurrent ==
    [][\A r \in DOMAIN req :
        ( /\ Begins(r, "PUT")
          /\ StaleFor(req'[r].theatre_id[1], req'[r].if_match)
          /\ req'[r].theatre_id[1] \in DOMAIN theatres ) =>
            IF CurrentIs(req'[r].theatre_id[1], req'[r].if_match)
            THEN req'[r].pc = "build"
            ELSE req'[r].pc = "done" /\ req'[r].status = 412 /\ theatres' = theatres
      ]_vars

\* C3's case: a PUT answered 412 for an If-Match that an earlier successful
\* PUT on the same id was let through with.
C3_Witness ==
    \E r \in DOMAIN req :
        /\ IsPut(r) /\ Done(r) /\ req[r].status = 412
        /\ \E p \in Answered :
            /\ p < r /\ IsPut(p) /\ req[p].status = 200
            /\ req[p].theatre_id = req[r].theatre_id
            /\ req[p].if_match = req[r].if_match

\* C4: a request answered with an error changed no entry of the store: a
\* PUT answered 404, 412 or 428 and a DELETE answered 404 or 412 are
\* answered in their first step, which leaves the store as it was, and
\* after a DELETE answered 412 the resource is Present with the value, and
\* so the ETag, it had.
C4_ErrorsLeaveStore ==
    [][\A r \in DOMAIN req :
        ( /\ Answers(r)
          /\ \/ req'[r].kind = "PUT" /\ req'[r].status \in {404, 412, 428}
             \/ req'[r].kind = "DELETE" /\ req'[r].status \in {404, 412} ) =>
            /\ req[r].pc = "idle"
            /\ theatres' = theatres
            /\ (req'[r].kind = "DELETE" /\ req'[r].status = 412) =>
                  LET id == req'[r].theatre_id[1] IN
                  /\ id \in DOMAIN theatres'
                  /\ theatres'[id] = theatres[id]
                  /\ Some(CalcEtag(theatres'[id])) # req'[r].if_match
      ]_vars

\* C4's case: a DELETE answered 412 whose resource is still stored.
C4_Witness ==
    \E r \in DOMAIN req :
        /\ IsDelete(r) /\ Done(r) /\ req[r].status = 412
        /\ req[r].theatre_id[1] \in DOMAIN theatres

\* C5: a GET of a Present id is answered 304 without a body exactly when
\* its If-None-Match equals the ETag of the stored value, and 200 with the
\* stored value as body otherwise; either way the ETag header is the ETag
\* of the stored value.  A GET of an Absent id is answered 404.
C5_ConditionalGet ==
    [][\A r \in DOMAIN req :
        Begins(r, "GET") =>
            LET id == req'[r].theatre_id[1]
                inm == req'[r].if_none_match IN
            /\ req'[r].pc = "done"
            /\ theatres' = theatres
            /\ IF id \notin DOMAIN theatres
               THEN req'[r].status = 404
               ELSE /\ req'[r].etag = Some(CalcEtag(theatres[id]))
                    /\ IF inm = Some(CalcEtag(theatres[id]))
                       THEN /\ req'[r].status = 304
                            /\ req'[r].body = None
                            /\ req'[r].etag = inm
                       ELSE /\ req'[r].status = 200
                            /\ req'[r].body = Some(theatres[id])
      ]_vars

\* C5's case: a GET answered 304 for the ETag the stored value has.
C5_Witness ==
    \E r \in DOMAIN req :
        /\ IsGet(r) /\ Done(r) /\ req[r].status = 304
        /\ req[r].body = None
        /\ CurrentIs(req[r].theatre_id[1], req[r].if_none_match)

\* C6: a PUT on an Absent id is answered 404 and stores nothing, and an id
\* whose DELETE was answered 200 is Absent from then on.
C6_NoResurrection ==
    [][/\ \A r \in DOMAIN req :
            (Begins(r, "PUT") /\ req'[r].theatre_id[1] \notin DOMAIN theatres) =>
                (req'[r].pc = "done" /\ req'[r].status = 404 /\ theatres' = theatres)
       /\ \A d \in DOMAIN req :
            (req'[d].kind = "DELETE" /\ req'[d].pc = "done" /\ req'[d].status = 200) =>
                req'[d].theatre_id[1] \notin DOMAIN theatres'
      ]_vars

\* C7: a DELETE that finds its id Present and carries no If-Match, or the
\* ETag of the value it found, is answered 200 and nothing else; the step
\* that answers 200 takes the id from Present to Absent; and a GET of the
\* id that begins after the 200 is answered 404.
C7_DeleteThenGone ==
    [][/\ \A r \in DOMAIN req :
            (IsDelete(r) /\ req[r].pc = "del" /\ Answers(r)) =>
                LET id == req[r].theatre_id[1] IN
                /\ req'[r].status = 200
                /\ id \in DOMAIN theatres
                /\ id \notin DOMAIN theatres'
       /\ \A g \in DOMAIN req :
            ( /\ Begins(g, "GET")
              /\ \E d \in Answered :
                    /\ IsDelete(d) /\ req[d].status = 200
                    /\ req[d].theatre_id = req'[g].theatre_id ) =>
                req'[g].status = 404
      ]_vars

\* C8: a DELETE that carries If-Match and is answered 200 removes a value
\* whose ETag is its If-Match.
C8_GuardedDeleteRemovesMatch ==
    [][\A r \in DOMAIN req :
        ( /\ IsDelete(r) /\ Answers(r) /\ req'[r].status = 200
          /\ req[r].if_match # None ) =>
            CurrentIs(req[r].theatre_id[1], req[r].if_match)
      ]_vars

\* C9: every DELETE ends with 200, 404 or 412 and every PUT with 200, 404,
\* 412 or 428; of two DELETEs of one Present id, neither fails unhandled.
C9_StatusesListed ==
    \A r \in DOMAIN req :
        Done(r) =>
            /\ IsDelete(r) => req[r].status \in {200, 404, 412}
            /\ IsPut(r) => req[r].status \in {200, 404, 412, 428}

\* C10: the scenario's six answers are 201 with an ETag E1, 200 with E1,
\* 200 with an ETag E2 other than E1, 412, 200 and 404.
C10_Scenario ==
    /\ Done(1) => (req[1].status = 201 /\ req[1].etag # None)
    /\ Done(2) => (req[2].status = 200 /\ req[2].etag = ScenE1)
    /\ Done(3) => (req[3].status = 200 /\ req[3].etag # None /\ ScenE2 # ScenE1)
    /\ Done(4) => req[4].status = 412
    /\ Done(5) => req[5].status = 200
    /\ Done(6) => req[6].status = 404

\* C10's case: the scenario has run to its last answer.
C10_Witness ==
    /\ \A r \in DOMAIN req : Done(r)
    /\ <<req[1].kind, req[2].kind, req[3].kind, req[4].kind, req[5].kind,
         req[6].kind>> = <<"POST", "GET", "PUT", "PUT", "DELETE", "GET">>
    /\ req[3].if_match = ScenE1 /\ req[4].if_match = ScenE1
    /\ req[5].if_match = ScenE2

\* The business fields of a stored theatre: what a client sends and sees
\* as content, without the identifier and the timestamps.
Fields(t) == [name |-> t.name, capacity |-> t.capacity, phone |-> t.phone]

\* C11: two theatres stored under distinct identifiers with the same
\* business fields have the same ETag, and so have the ETags reported for
\* them by create, GET and PUT.
C11_ContentAddressed ==
    /\ \A i, j \in DOMAIN theatres :
        (i # j /\ Fields(theatres[i]) = Fields(theatres[j])) =>
            CalcEtag(theatres[i]) = CalcEtag(theatres[j])
    /\ \A p, q \in Answered :
        ( /\ req[p].body # None /\ req[q].body # None
          /\ req[p].body[1].id # req[q].body[1].id
          /\ Fields(req[p].body[1]) = Fields(req[q].body[1]) ) =>
            req[p].etag = req[q].etag

\* C12: a PUT answered 200 that replaces the version its If-Match names
\* is answered with that same ETag when its body has the fields of that
\* version, and with another ETag when its body changes a field.
C12_SameContentSameEtag ==
    [][\A r \in DOMAIN req :
        ( /\ IsPut(r) /\ req[r].pc = "store" /\ Answers(r)
          /\ req'[r].status = 200
          /\ CurrentIs(req[r].theatre_id[1], req[r].if_match) ) =>
            LET stored == theatres[req[r].theatre_id[1]] IN
            IF Fields(stored) = req[r].theatre[1]
            THEN req'[r].etag = req[r].if_match
            ELSE req'[r].etag # req[r].if_match
      ]_vars

\* The identifier the answer of request r is about.
AnsweredId(r) ==
    IF req'[r].kind = "POST" THEN req'[r].body[1].id ELSE req'[r].theatre_id[1]

\* C13: the ETag header of a create, a GET or a successful PUT is the ETag
\* of the value stored under the id when it is answered, and the ETag of
\* the value stored under an id changes only in the step that answers a
\* PUT or a DELETE of that id with 200; so a later GET reports the same
\* ETag until such a PUT or DELETE happens.
C13_EtagOfStoredValue ==
    [][/\ \A r \in DOMAIN req :
            (Answers(r) /\ req'[r].etag # None) =>
                /\ AnsweredId(r) \in DOMAIN theatres'
                /\ req'[r].etag = Some(CalcEtag(theatres'[AnsweredId(r)]))
       /\ \A k \in DOMAIN theatres :
            (k \notin DOMAIN theatres'
                \/ CalcEtag(theatres'[k]) # CalcEtag(theatres[k])) =>
                \E r \in DOMAIN req :
                    /\ Answers(r) /\ req'[r].kind \in {"PUT", "DELETE"}
                    /\ req'[r].status = 200 /\ req'[r].theatre_id = Some(k)
      ]_vars

\* C13's case: a GET answered with the ETag the create of its id reported,
\* and a PUT answered with the ETag of the value it stored.
C13_Witness ==
    \E p, g, u \in DOMAIN req :
        /\ req[p].kind = "POST" /\ Done(p)
        /\ IsGet(g) /\ Done(g) /\ p < g
        /\ req[g].theatre_id = Some(req[p].body[1].id)
        /\ req[g].etag = req[p].etag
        /\ IsPut(u) /\ Done(u) /\ req[u].status = 200
        /\ req[u].etag # req[p].etag
        /\ CurrentIs(req[u].theatre_id[1], req[u].etag)

\* C14: a GET, whatever its answer and its If-None-Match, leaves every
\* entry of the store as it was.
C14_GetReadsOnly ==
    [][\A r \in DOMAIN req :
        Begins(r, "GET") =>
            /\ req'[r].status \in {200, 304, 404}
            /\ theatres' = theatres
      ]_vars

\* C14's case: a GET answered 200 whose body is still what is stored.
C14_Witness ==
    \E g \in DOMAIN req :
        /\ IsGet(g) /\ Done(g) /\ req[g].status = 200
        /\ DictGet(theatres, req[g].theatre_id[1]) = req[g].body

\* C15: the theatre stored under key k has identifier k; a create stores
\* under an identifier that was Absent and touches no other entry; a
\* successful PUT stores under the identifier it was sent to.
C15_KeyedByOwnId ==
    [][/\ \A k \in DOMAIN theatres' : theatres'[k].id = k
       /\ \A r \in DOMAIN req :
            Begins(r, "POST") =>
                LET id == req'[r].body[1].id IN
                /\ id \notin DOMAIN theatres
                /\ DOMAIN theatres' = DOMAIN theatres \cup {id}
                /\ theatres'[id] = req'[r].body[1]
                /\ \A k \in DOMAIN theatres : theatres'[k] = theatres[k]
       /\ \A r \in DOMAIN req :
            (IsPut(r) /\ Answers(r) /\ req'[r].status = 200) =>
                LET id == req[r].theatre_id[1] IN
                /\ id \in DOMAIN theatres'
                /\ theatres'[id].id = id
                /\ req'[r].body[1].id = id
      ]_vars

\* C15's case: two theatres stored, one of them written by a PUT.
C15_Witness ==
    /\ Cardinality(DOMAIN theatres) = 2
    /\ \E u \in DOMAIN req :
        /\ IsPut(u) /\ Done(u) /\ req[u].status = 200
        /\ DictGet(theatres, req[u].theatre_id[1]) = req[u].body

\* Request r is past its first step and not yet answered.
InFlight(r) == req[r].pc \in {"build", "store", "del"}

\* The next step of request r can be taken now.
CanStep(r) ==
    \/ req[r].pc = "build" /\ ENABLED PutBuild(r)
    \/ req[r].pc = "store" /\ ENABLED PutStore(r)
    \/ req[r].pc = "del" /\ ENABLED DelRemove(r)

\* C16: a request that has started is answered in the end; its next step
\* never waits for another request, whatever GETs, PUTs and DELETEs are
\* going on; and once it is answered, with 412 and 428 as with any other
\* status, the server does nothing more for it: the answer stands.
C16_EveryRequestAnswered ==
    /\ \A r \in Req : [](InFlight(r) => <>Done(r))
    /\ [](\A r \in Req : InFlight(r) => CanStep(r))
    /\ [][\A r \in Req : Done(r) => req'[r] = req[r]]_vars

\* C16's case: a PUT answered 200 although a GET of the same id, sent
\* after the PUT had started, was served before the PUT's write.
C16_Witness ==
    \E u, g \in DOMAIN req :
        /\ IsPut(u) /\ Done(u) /\ req[u].status = 200
        /\ IsGet(g) /\ Done(g) /\ u < g
        /\ req[g].theatre_id = req[u].theatre_id
        /\ req[g].etag = req[u].if_match
        /\ req[g].etag # req[u].etag

\* C17: a PUT on an Absent id is answered 404 with or without If-Match; a
\* 428 is only given for a Present id without If-Match and a 412 only for
\* a Present id with one; a DELETE on an Absent id is answered 404
\* whatever its If-Match.
C17_ExistenceFirst ==
    [][\A r \in DOMAIN req :
        /\ Begins(r, "PUT") =>
              LET present == req'[r].theatre_id[1] \in DOMAIN theatres IN
              /\ ~present => (req'[r].pc = "done" /\ req'[r].status = 404)
              /\ req'[r].status = 428 => (present /\ req'[r].if_match = None)
              /\ req'[r].status = 412 => (present /\ req'[r].if_match # None)
        /\ Begins(r, "DELETE") =>
              (req'[r].theatre_id[1] \notin DOMAIN theatres =>
                    (req'[r].pc = "done" /\ req'[r].status = 404))
      ]_vars

\* C17's case: a PUT without If-Match and a DELETE with If-Match, both on
\* an id that is not stored, both answered 404.
C17_Witness ==
    \E u, d \in DOMAIN req :
        /\ IsPut(u) /\ Done(u) /\ req[u].status = 404 /\ req[u].if_match = None
        /\ IsDelete(d) /\ Done(d) /\ req[d].status = 404
        /\ req[d].if_match # None

\* C18: a step changes the store entry of no identifier but the one the
\* request that takes the step is about.
C18_OtherIdsUntouched ==
    [][\A k \in DOMAIN theatres \cup DOMAIN theatres' :
        DictGet(theatres', k) # DictGet(theatres, k) =>
            \E r \in DOMAIN req : req'[r] # req[r] /\ AnsweredId(r) = k
      ]_vars

\* C18's case: of two stored theatres one was deleted, and the other is
\* still the value its create returned.
C18_Witness ==
    \E p, d \in DOMAIN req :
        /\ req[p].kind = "POST" /\ Done(p)
        /\ IsDelete(d) /\ Done(d) /\ req[d].status = 200
        /\ req[d].theatre_id[1] # req[p].body[1].id
        /\ req[d].theatre_id[1] \notin DOMAIN theatres
        /\ DictGet(theatres, req[p].body[1].id) = req[p].body

\* C19: the ETag header of a GET answered 200 is the ETag of the body it
\* returns, and that body is the value stored under the id when the GET
\* looked it up.
C19_BodyAndEtagAgree ==
    [][\A r \in DOMAIN req :
        (Begins(r, "GET") /\ req'[r].status = 200) =>
            /\ req'[r].body # None
            /\ req'[r].etag = Some(CalcEtag(req'[r].body[1]))
            /\ req'[r].body = DictGet(theatres, req'[r].theatre_id[1])
      ]_vars

\* C19's case: a GET answered 200 while a PUT of the same id was between
\* its check and its write; the store has since moved on from the body.
C19_Witness ==
    \E u, g \in DOMAIN req :
        /\ IsPut(u) /\ Done(u) /\ req[u].status = 200 /\ u < g
        /\ IsGet(g) /\ Done(g) /\ req[g].status = 200
        /\ req[g].theatre_id = req[u].theatre_id
        /\ req[g].etag = Some(CalcEtag(req[g].body[1]))
        /\ DictGet(theatres, req[g].theatre_id[1]) # req[g].body
        /\ DictGet(theatres, req[g].theatre_id[1]) = req[u].body

====
